---- MODULE Spec2Model ----
(***************************************************************************)
(* Model of the WaPOR acquisition script wapor_ingest.py: the module-level *)
(* sign-in, download_data (raster listing, list_cubes diagnostic, the      *)
(* per-raster resolve / gdal.Translate / sleep loop) and the entry script. *)
(* One execution of the script is a run; the output folder outlives runs.  *)
(***************************************************************************)
EXTENDS Integers, Sequences, FiniteSets, TLC

VARIABLES
    pc,                 \* position of the script
    run,                \* number of the current execution of the script
    rasters,            \* server side: rasterIds the cube's listing returns
    get_full_coverage,  \* entry script, line 101
    b_box,              \* entry script, line 102
    access_token,       \* module global, line 29
    inp_cubecodes,      \* download_data local, line 56
    x,                  \* position of the for loop of line 58
    tif_url,            \* download_data local, line 68
    ret,                \* value download_data returned
    printed,            \* list_cubes printed the cube listing
    files,              \* output folder: path -> artifact
    trace,              \* history: the calls of this run, in order
    runLog              \* history: (case, returned status) of finished runs

vars == <<pc, run, rasters, get_full_coverage, b_box, access_token,
          inp_cubecodes, x, tif_url, ret, printed, files, trace, runLog>>

----------------------------------------------------------------------------
(* Bounds *)
MaxRasters == 2
MaxRuns == 2

(* Inputs *)
Statuses == {200, 404, 500}
Boxes == { <<300, 305, 315, 285>>,     \* the script's box, in tenths
           <<315, 305, 300, 285>>,     \* west >= east
           <<300, 285, 315, 305>> }    \* north <= south
FetchOutcomes ==
    { [result |-> "ok",    wrote |-> "complete"],
      [result |-> "none",  wrote |-> "nothing"],
      [result |-> "none",  wrote |-> "partial"],
      [result |-> "raise", wrote |-> "nothing"],
      [result |-> "raise", wrote |-> "partial"] }

outfolder == "test_folder"
coverage == get_full_coverage
bounding_box == b_box

NoToken == 0
NoUrl == <<>>
NoWindow == <<>>
NoReturn == [text |-> "<none>", detail |-> 0]
ExportsDone == [text |-> "Exports Done", detail |-> 0]
ErrorReturn(st) == [text |-> "Error: ", detail |-> st]

\* requests.Response.raise_for_status raises for 4xx and 5xx
RaisesForStatus(st) == st >= 400 /\ st < 600

Bearer(tok) == <<"Bearer", tok>>
tif_headers == Bearer(access_token)

OutputPath(folder, rasterid) == <<folder, rasterid, ".tif">>

\* mutant: the new content is added to what the destination held
WriteFile_Merges(fs, path, art) ==
    [q \in (DOMAIN fs) \cup {path} |->
        IF q # path THEN fs[q]
        ELSE IF path \in DOMAIN fs
             THEN [art EXCEPT !.fetches = @ \cup fs[path].fetches]
             ELSE art]

\* gdal.Translate creates the destination anew
WriteFile(fs, path, art) ==
    [q \in (DOMAIN fs) \cup {path} |-> IF q = path THEN art ELSE fs[q]]

TranslateWindow == IF coverage THEN bounding_box ELSE NoWindow

Event(op, rasterid, st, tok, url, win, res, wrote) ==
    [op |-> op, raster |-> rasterid, status |-> st, token |-> tok,
     url |-> url, window |-> win, result |-> res, wrote |-> wrote]

Ops(op) == {k \in 1..Len(trace) : trace[k].op = op}

\* which of the three cases a run with the calls tr falls in
CaseOf(tr) ==
    LET ok == {k \in 1..Len(rasters) :
                 \E j \in 1..Len(tr) : /\ tr[j].op = "fetch"
                                        /\ tr[j].raster = rasters[k]
                                        /\ tr[j].wrote = "complete"}
    IN IF Cardinality(ok) = Len(rasters) THEN "all succeeded"
       ELSE IF ok = {} THEN "all failed" ELSE "partial"

\* a finished run over a non-empty listing is entered with what it returned
Logged(log, tr, r) ==
    IF Len(rasters) = 0 THEN log
    ELSE log \cup {[case |-> CaseOf(tr), ret |-> r]}

----------------------------------------------------------------------------
Init ==
    /\ pc = "start"
    /\ run = 1
    /\ \E n \in 0..MaxRasters : rasters = [k \in 1..n |-> k]
    /\ get_full_coverage \in BOOLEAN
    /\ b_box \in Boxes
    /\ access_token = NoToken
    /\ inp_cubecodes = <<>>
    /\ x = 0
    /\ tif_url = NoUrl
    /\ ret = NoReturn
    /\ printed = FALSE
    /\ files = <<>>
    /\ trace = <<>>
    /\ runLog = {}

\* lines 26-30: POST /iam/sign-in; the status is not looked at, the token is
\* read from the body and a body without it raises
SignIn ==
    /\ pc = "start"
    /\ \E st \in Statuses, hasToken \in BOOLEAN :
         LET tok == IF hasToken THEN run ELSE NoToken
         IN /\ trace' = Append(trace,
                   Event("auth", 0, st, tok, NoUrl, NoWindow, "", ""))
            /\ IF hasToken
               THEN access_token' = tok /\ pc' = "main"
               ELSE access_token' = access_token /\ pc' = "crashed"
    /\ UNCHANGED <<run, rasters, get_full_coverage, b_box, inp_cubecodes, x,
                   tif_url, ret, printed, files, runLog>>

\* lines 104, 44-56: the listing succeeded
ListRastersOk ==
    /\ pc = "main"
    /\ \E st \in Statuses :
         /\ ~RaisesForStatus(st)
         /\ trace' = Append(trace,
                Event("list", 0, st, NoToken, NoUrl, NoWindow, "", ""))
    /\ inp_cubecodes' = rasters
    /\ x' = 1
    /\ pc' = "loop"
    /\ UNCHANGED <<run, rasters, get_full_coverage, b_box, access_token,
                   tif_url, ret, printed, files, runLog>>

\* mutant: the failed listing does not end download_data
ListRastersFail_FallsThrough ==
    /\ pc = "main"
    /\ \E st \in Statuses :
         /\ RaisesForStatus(st)
         /\ trace' = Append(trace,
                Event("list", 0, st, NoToken, NoUrl, NoWindow, "", ""))
    /\ inp_cubecodes' = rasters
    /\ x' = 1
    /\ pc' = "loop"
    /\ UNCHANGED <<run, rasters, get_full_coverage, b_box, access_token,
                   tif_url, ret, printed, files, runLog>>

\* lines 47-51: the listing failed, list_cubes is called next
ListRastersFail ==
    /\ pc = "main"
    /\ \E st \in Statuses :
         /\ RaisesForStatus(st)
         /\ trace' = Append(trace,
                Event("list", 0, st, NoToken, NoUrl, NoWindow, "", ""))
    /\ pc' = "list_cubes"
    /\ UNCHANGED <<run, rasters, get_full_coverage, b_box, access_token,
                   inp_cubecodes, x, tif_url, ret, printed, files, runLog>>

\* lines 34-40 and 53: GET cubes, status not looked at; a body without
\* response.items raises out of download_data
list_cubes ==
    /\ pc = "list_cubes"
    /\ \E st \in Statuses, hasItems \in BOOLEAN :
         /\ trace' = Append(trace,
                Event("cubes", 0, st, NoToken, NoUrl, NoWindow,
                      IF hasItems THEN "items" ELSE "raise", ""))
         /\ IF hasItems
            THEN /\ printed' = TRUE
                 /\ ret' = ErrorReturn(trace[Len(trace)].status)
                 /\ pc' = "done"
            ELSE /\ pc' = "crashed"
                 /\ UNCHANGED <<printed, ret>>
    /\ UNCHANGED <<run, rasters, get_full_coverage, b_box, access_token,
                   inp_cubecodes, x, tif_url, files, runLog>>

\* lines 58-68: the download-URL request for the next raster
Resolve ==
    /\ pc = "loop"
    /\ x <= Len(inp_cubecodes)
    /\ \E st \in Statuses :
         LET rasterid == inp_cubecodes[x]
             url == <<"downloadUrl", rasterid, run>>
         IN /\ trace' = Append(trace,
                   Event("resolve", rasterid, st, tif_headers[2],
                         IF RaisesForStatus(st) THEN NoUrl ELSE url,
                         NoWindow, "", ""))
            /\ IF RaisesForStatus(st)
               THEN /\ ret' = ErrorReturn(st)
                    /\ pc' = "done"
                    /\ runLog' = Logged(runLog, trace', ret')
                    /\ UNCHANGED tif_url
               ELSE /\ tif_url' = url
                    /\ pc' = "fetch"
                    /\ UNCHANGED <<ret, runLog>>
    /\ UNCHANGED <<run, rasters, get_full_coverage, b_box, access_token,
                   inp_cubecodes, x, printed, files>>

\* lines 69-77: gdal.Translate of the resolved location to the output path;
\* its result ds is not looked at
Fetch ==
    /\ pc = "fetch"
    /\ \E o \in FetchOutcomes :
         LET rasterid == inp_cubecodes[x]
             output_filepath == OutputPath(outfolder, rasterid)
             art == [raster |-> rasterid, url |-> tif_url,
                     window |-> TranslateWindow,
                     complete |-> (o.wrote = "complete"),
                     fetches |-> {<<run, rasterid>>}]
         IN /\ trace' = Append(trace,
                   Event("fetch", rasterid, 0, NoToken, tif_url,
                         TranslateWindow, o.result, o.wrote))
            /\ files' = IF o.wrote = "nothing" THEN files
                        ELSE WriteFile(files, output_filepath, art)
            /\ pc' = IF o.result = "raise" THEN "crashed" ELSE "sleep"
    /\ UNCHANGED <<run, rasters, get_full_coverage, b_box, access_token,
                   inp_cubecodes, x, tif_url, ret, printed, runLog>>

\* mutant: the loop skips the raster after the one just fetched
Sleep_SkipsNext ==
    /\ pc = "sleep"
    /\ trace' = Append(trace,
           Event("pace", inp_cubecodes[x], 0, NoToken, NoUrl, NoWindow, "", ""))
    /\ x' = x + 2
    /\ pc' = "loop"
    /\ UNCHANGED <<run, rasters, get_full_coverage, b_box, access_token,
                   inp_cubecodes, tif_url, ret, printed, files, runLog>>

\* line 79: time.sleep(10), then the next raster
Sleep ==
    /\ pc = "sleep"
    /\ trace' = Append(trace,
           Event("pace", inp_cubecodes[x], 0, NoToken, NoUrl, NoWindow, "", ""))
    /\ x' = x + 1
    /\ pc' = "loop"
    /\ UNCHANGED <<run, rasters, get_full_coverage, b_box, access_token,
                   inp_cubecodes, tif_url, ret, printed, files, runLog>>

\* mutant: an empty listing is reported as an error
Return_EmptyIsError ==
    /\ pc = "loop"
    /\ x > Len(inp_cubecodes)
    /\ ret' = IF Len(inp_cubecodes) = 0 THEN ErrorReturn(404) ELSE ExportsDone
    /\ pc' = "done"
    /\ runLog' = Logged(runLog, trace, ret')
    /\ UNCHANGED <<run, rasters, get_full_coverage, b_box, access_token,
                   inp_cubecodes, x, tif_url, printed, files, trace>>

\* line 81: the loop is exhausted
Return ==
    /\ pc = "loop"
    /\ x > Len(inp_cubecodes)
    /\ ret' = ExportsDone
    /\ pc' = "done"
    /\ runLog' = Logged(runLog, trace, ret')
    /\ UNCHANGED <<run, rasters, get_full_coverage, b_box, access_token,
                   inp_cubecodes, x, tif_url, printed, files, trace>>

\* the script is executed again: a new process, the same output folder
Rerun ==
    /\ pc \in {"done", "crashed"}
    /\ run < MaxRuns
    /\ run' = run + 1
    /\ pc' = "start"
    /\ access_token' = NoToken
    /\ inp_cubecodes' = <<>>
    /\ x' = 0
    /\ tif_url' = NoUrl
    /\ ret' = NoReturn
    /\ printed' = FALSE
    /\ trace' = <<>>
    /\ UNCHANGED <<rasters, get_full_coverage, b_box, files, runLog>>

Next ==
    \/ SignIn
    \/ ListRastersOk
    \/ ListRastersFail
    \/ list_cubes
    \/ Resolve
    \/ Fetch
    \/ Sleep
    \/ Return
    \/ Rerun

Spec == Init /\ [][Next]_vars

----------------------------------------------------------------------------
(* Properties *)

Terminated == pc \in {"done", "crashed"}
ListFailed ==
    Len(trace) >= 2 /\ trace[2].op = "list" /\ RaisesForStatus(trace[2].status)
ListSucceeded ==
    Len(trace) >= 2 /\ trace[2].op = "list" /\ ~RaisesForStatus(trace[2].status)
AllPaths == {OutputPath(outfolder, rasters[k]) : k \in 1..Len(rasters)}
InvalidBox(b) == b[1] >= b[3] \/ b[2] <= b[4]

\* C1: when the resolution of item k fails, download_data still attempts the
\* resolution of every later item of the listing before it returns.
C1_ResolutionFailureIsolated ==
    (pc = "done" /\ \E k \in Ops("resolve") : RaisesForStatus(trace[k].status))
    => \A j \in 1..Len(rasters) :
          \E k \in Ops("resolve") : trace[k].raster = rasters[j]

\* C2: a token is obtained if and only if the sign-in returned a success
\* status and a body with accessToken; otherwise the run ends in an
\* authentication error and no protected call is made.
C2_TokenIffSuccessWithToken ==
    Len(trace) >= 1 =>
        LET good == ~RaisesForStatus(trace[1].status) /\ trace[1].token # NoToken
        IN /\ (access_token # NoToken) <=> good
           /\ ~good => (pc = "crashed" /\ Ops("resolve") = {})

C4_FetchFailureReported ==
    (pc = "done" /\ \E k \in Ops("fetch") : trace[k].wrote # "complete")
    => ret # ExportsDone

C6_EmptyListing ==
    (ListSucceeded /\ Len(rasters) = 0) =>
        /\ Ops("resolve") = {} /\ Ops("fetch") = {}
        /\ pc \in {"loop", "done"}
        /\ pc = "done" => /\ ret = ExportsDone
                          /\ \A st \in Statuses : ret # ErrorReturn(st)

C6_Witness ==
    ListSucceeded /\ Len(rasters) = 0 /\ pc = "done" /\ ret = ExportsDone

\* C7: a window is applied to a fetch if and only if full coverage was not
\* requested by the entry script's get_full_coverage flag.
C7_WindowIffNotFullCoverage ==
    \A k \in Ops("fetch") :
        (trace[k].window # NoWindow) <=> ~get_full_coverage

\* C8: a run with an invalid bounding box for a windowed fetch makes no
\* network call at all.
C8_InvalidBoxFailsFast ==
    (InvalidBox(b_box) /\ coverage) => trace = <<>>

ExpectedOp(k) ==
    IF k = 1 THEN "auth"
    ELSE IF k = 2 THEN "list"
    ELSE IF (k - 3) % 3 = 0 THEN "resolve"
    ELSE IF (k - 3) % 3 = 1 THEN "fetch" ELSE "pace"
ExpectedRaster(k) == IF k <= 2 THEN 0 ELSE rasters[((k - 3) \div 3) + 1]
InOrder(k) ==
    trace[k].op = ExpectedOp(k) /\ trace[k].raster = ExpectedRaster(k)
EndsRun(e) ==
    \/ e.op = "auth" /\ e.token = NoToken
    \/ e.op = "cubes"
    \/ e.op = "resolve" /\ RaisesForStatus(e.status)
    \/ e.op = "fetch" /\ e.result = "raise"
TokenKept ==
    /\ Len(trace) >= 1 => access_token = trace[1].token
    /\ \A k \in Ops("resolve") :
          trace[k].token = trace[1].token /\ trace[k].token # NoToken
    /\ \A k \in Ops("fetch") : trace[k].url = trace[k - 1].url

\* C9 (as stated): every run makes exactly one authentication call, then
\* exactly one listing call, then for each raster in listing order one
\* resolution, one fetch of the location just resolved and the pacing delay,
\* with the token never changed.
C9_FullSequence ==
    Terminated =>
        /\ Len(trace) = 2 + 3 * Len(rasters)
        /\ \A k \in 1..Len(trace) : InOrder(k)
        /\ TokenKept

\* C9 (amended): the calls of every run are a prefix of that sequence (one
\* authentication, one listing, then resolution, fetch of the location just
\* resolved and pacing delay per raster in listing order) with the token
\* never changed; the run ends early at a sign-in without token, at a failed
\* listing (after one cube-listing call), at a failed resolution or at a
\* fetch that raises, and a run that returns "Exports Done" made the whole
\* sequence.
C9_SequentialPrefix ==
    /\ Len(trace) <= 2 + 3 * Len(rasters) \/ (ListFailed /\ Len(trace) = 3)
    /\ \A k \in 1..Len(trace) :
          IF k = 3 /\ ListFailed THEN trace[k].op = "cubes" ELSE InOrder(k)
    /\ \A k \in 1..Len(trace) : EndsRun(trace[k]) => k = Len(trace)
    /\ TokenKept
    /\ (pc = "done" /\ ret = ExportsDone) => Len(trace) = 2 + 3 * Len(rasters)

C9_Witness ==
    /\ pc = "done" /\ ret = ExportsDone
    /\ Len(rasters) >= 2 /\ Len(trace) = 2 + 3 * Len(rasters)

\* C10: every artifact lies at the path of its rasterId, at most one per
\* rasterId of the listing, and holds the content of the latest fetch that
\* wrote it only; once a run has fetched every raster the set of paths is
\* the set that run wrote, whatever later runs do.
C10_ArtifactsKeyedByRasterId ==
    /\ DOMAIN files \subseteq AllPaths
    /\ \A p \in DOMAIN files :
          LET a == files[p]
              now == \E k \in Ops("fetch") :
                        trace[k].raster = a.raster /\ trace[k].wrote # "nothing"
          IN /\ p = OutputPath(outfolder, a.raster)
             /\ \E r \in 1..run :
                   /\ a.fetches = {<<r, a.raster>>}
                   /\ a.url = <<"downloadUrl", a.raster, r>>
                   /\ now <=> r = run
             /\ a.window = TranslateWindow
    /\ (\E e \in runLog : e.case = "all succeeded") => DOMAIN files = AllPaths

C10_Witness ==
    /\ run = 2 /\ Len(rasters) >= 2
    /\ \E e \in runLog : e.case = "all succeeded"
    /\ \E p, q \in DOMAIN files :
          /\ files[p].fetches = {<<1, files[p].raster>>}
          /\ files[q].fetches = {<<2, files[q].raster>>}

====
